---------------------------- MODULE Spec2Model ----------------------------
(***************************************************************************)
(* A model of the EnhancedMem consolidation pipeline of nanobot-memory:    *)
(* src/nanobot/agent/enhancedmem/store.py (EnhancedMemStore.consolidate,   *)
(* boundary detection, the four extractors, the long-term digest) and      *)
(* src/nanobot/agent/enhancedmem/cluster.py (the cluster state file).      *)
(*                                                                         *)
(* Texts are sequences of one-character strings.  A timestamp is the pair  *)
(* of digits of its day of month (the year and month are fixed and left    *)
(* out; the time of day is fixed), <<>> when the message carries none and  *)
(* a pair that is no day of the month when it is malformed.                *)
(***************************************************************************)
EXTENDS Integers, Sequences, FiniteSets, TLC

(***************************************************************************)
(* Program constants                                                       *)
(***************************************************************************)
HARD_TOKEN_LIMIT == 8192
HARD_MESSAGE_LIMIT == 50
CHARS_PER_TOKEN == 3
\* the divisor of "keep = self._memory_md_max_chars // 80"
COMPACT_LINE_CHARS == 80
\* the number of boundary-detection attempts, "for attempt in range(3)"
BOUNDARY_ATTEMPTS == 3

(***************************************************************************)
(* Bounds of the model                                                     *)
(***************************************************************************)
\* the configured cap of MEMORY.md (config.memory_md_max_chars)
MemoryMdMaxChars == 16
\* how many consolidate calls are made on the session
MaxCalls == 2
\* how many cluster assignments each concurrent assigner makes
MaxAssign == 2

(***************************************************************************)
(* Texts                                                                   *)
(***************************************************************************)
NL == "\n"
Whitespace == {" ", NL}

RECURSIVE rstrip(_)
\* str.rstrip(): the text without its trailing whitespace
rstrip(s) ==
    IF s # <<>> /\ s[Len(s)] \in Whitespace
    THEN rstrip(SubSeq(s, 1, Len(s) - 1))
    ELSE s

RECURSIVE lstrip(_)
\* str.lstrip()
lstrip(s) ==
    IF s # <<>> /\ s[1] \in Whitespace THEN lstrip(Tail(s)) ELSE s

\* str.strip()
strip(s) == lstrip(rstrip(s))

\* s.startswith(p)
startswith(s, p) == Len(s) >= Len(p) /\ SubSeq(s, 1, Len(p)) = p

\* "sub in s" for strings
Contains(s, sub) ==
    \E i \in 1..(Len(s) - Len(sub) + 1) : SubSeq(s, i, i + Len(sub) - 1) = sub

RECURSIVE splitlines(_)
\* str.splitlines(): the lines of the text, a final newline opening no line
splitlines(s) ==
    IF s = <<>> THEN <<>>
    ELSE IF \E i \in 1..Len(s) : s[i] = NL
         THEN LET i == CHOOSE k \in 1..Len(s) :
                           s[k] = NL /\ \A j \in 1..(k - 1) : s[j] # NL
              IN  <<SubSeq(s, 1, i - 1)>> \o splitlines(SubSeq(s, i + 1, Len(s)))
         ELSE <<s>>

RECURSIVE join(_)
\* "\n".join(lines)
join(lines) ==
    IF lines = <<>> THEN <<>>
    ELSE IF Len(lines) = 1 THEN lines[1]
    ELSE lines[1] \o <<NL>> \o join(Tail(lines))

\* s[:n]
Prefix(s, n) == SubSeq(s, 1, IF n < Len(s) THEN n ELSE Len(s))

Max(a, b) == IF a >= b THEN a ELSE b

(***************************************************************************)
(* Timestamps                                                              *)
(***************************************************************************)
Digits == <<"0", "1", "2", "3", "4", "5", "6", "7", "8", "9">>
DigitVal(c) == (CHOOSE i \in 1..10 : Digits[i] = c) - 1

\* no timestamp in the message
NoTimestamp == <<>>
\* a timestamp string that is no ISO-8601 date
BadTimestamp == <<"9", "9">>
\* datetime.now(): the day the clock shows
Today == <<"1", "6">>

\* datetime.fromisoformat(ts) succeeds
IsIsoDate(ts) ==
    /\ Len(ts) = 2
    /\ LET d == 10 * DigitVal(ts[1]) + DigitVal(ts[2]) IN d >= 1 /\ d <= 31

\* the length of str(timestamp), an ISO timestamp to the second
IsoChars == 19
TimestampChars(ts) == IF ts = NoTimestamp THEN 0 ELSE IsoChars

(***************************************************************************)
(* Messages and the token estimate                                         *)
(***************************************************************************)
\* A session message: the length of its content (0: empty or absent) and
\* its timestamp.
Message(n, ts) == [content |-> n, timestamp |-> ts]

\* _estimate_tokens(text), text given by its length
estimate_tokens(n) == Max(1, n \div CHARS_PER_TOKEN)

RECURSIVE estimate_total_tokens(_)
\* _estimate_total_tokens(messages)
estimate_total_tokens(msgs) ==
    IF msgs = <<>> THEN 0
    ELSE estimate_tokens(msgs[1].content + TimestampChars(msgs[1].timestamp))
         + estimate_total_tokens(Tail(msgs))

(***************************************************************************)
(* Boundary detection                                                      *)
(***************************************************************************)
\* the fixed summaries, by their characters
LimitSummary == <<"L", "I", "M">>
ArchiveSummary == <<"A", "R", "C", "H">>
DefaultSummary == <<"S", "E", "G">>

Decision(e, w, s) == [end |-> e, wait |-> w, summary |-> s]

\* A variant of detect_boundary_pre that forces the close only above the
\* message ceiling, not at it.
detect_boundary_pre_above(history_msgs, new_msgs) ==
    IF new_msgs = <<>>
    THEN [ask |-> FALSE, d |-> Decision(FALSE, TRUE, <<>>)]
    ELSE IF /\ \/ estimate_total_tokens(history_msgs \o new_msgs) >= HARD_TOKEN_LIMIT
               \/ Len(history_msgs) + Len(new_msgs) > HARD_MESSAGE_LIMIT
            /\ Len(history_msgs) >= 2
    THEN [ask |-> FALSE, d |-> Decision(TRUE, FALSE, LimitSummary)]
    ELSE IF history_msgs = <<>>
    THEN [ask |-> FALSE, d |-> Decision(FALSE, FALSE, <<>>)]
    ELSE [ask |-> TRUE, d |-> Decision(FALSE, TRUE, <<>>)]

\* The part of _detect_boundary before the first provider call: a decision,
\* or ask = TRUE when the provider has to be asked.
detect_boundary_pre(history_msgs, new_msgs) ==
    IF new_msgs = <<>>
    THEN [ask |-> FALSE, d |-> Decision(FALSE, TRUE, <<>>)]
    ELSE IF /\ \/ estimate_total_tokens(history_msgs \o new_msgs) >= HARD_TOKEN_LIMIT
               \/ Len(history_msgs) + Len(new_msgs) >= HARD_MESSAGE_LIMIT
            /\ Len(history_msgs) >= 2
    THEN [ask |-> FALSE, d |-> Decision(TRUE, FALSE, LimitSummary)]
    ELSE IF history_msgs = <<>>
    THEN [ask |-> FALSE, d |-> Decision(FALSE, FALSE, <<>>)]
    ELSE [ask |-> TRUE, d |-> Decision(FALSE, TRUE, <<>>)]

\* A JSON field of the provider's reply: absent, a boolean, or a value that
\* is no boolean and that bool() maps to True ("truthy") or False ("falsy").
FieldValues == {"absent", "true", "false", "truthy", "falsy"}

\* bool(data.get(key, default))
PyBool(v, default) ==
    CASE v = "absent" -> default
      [] v = "true" -> TRUE
      [] v = "false" -> FALSE
      [] v = "truthy" -> TRUE
      [] OTHER -> FALSE

\* A provider reply to the boundary prompt: the call raises, or returns a
\* text in which a JSON object is found and parsed (json) or not.
BoundaryReply(r, j, e, w, s) ==
    [raises |-> r, json |-> j, should_end |-> e, should_wait |-> w,
     topic_summary |-> s]

\* One attempt of the retry loop parsed a JSON object out of the reply.
boundary_attempt_ok(reply) == ~reply.raises /\ reply.json

\* A variant of boundary_attempt_decision that returns should_wait as the
\* reply gives it.
boundary_attempt_decision_raw(reply) ==
    Decision(PyBool(reply.should_end, FALSE), PyBool(reply.should_wait, TRUE),
             reply.topic_summary)

\* The decision one attempt returns from a parsed reply.
boundary_attempt_decision(reply) ==
    LET should_end == PyBool(reply.should_end, FALSE)
        should_wait == PyBool(reply.should_wait, TRUE)
    IN  Decision(should_end,
                 IF should_end THEN FALSE ELSE should_wait,
                 reply.topic_summary)

\* A variant of boundary_exhausted that closes the episode when every attempt
\* failed.
boundary_exhausted_closing == Decision(TRUE, FALSE, DefaultSummary)

\* The decision when every attempt failed.
boundary_exhausted == Decision(FALSE, TRUE, <<>>)

(***************************************************************************)
(* MemCells                                                                *)
(***************************************************************************)
\* the indices lo..hi of the session messages with content
RECURSIVE WithContent(_, _, _)
WithContent(msgs, lo, hi) ==
    IF lo > hi THEN <<>>
    ELSE (IF msgs[lo].content > 0 THEN <<lo>> ELSE <<>>)
         \o WithContent(msgs, lo + 1, hi)

\* _create_memcell(messages[lo..hi], summary) with the uuid id: original_data
\* holds the messages with content, here by their index in the session.
create_memcell(msgs, lo, hi, summary, id) ==
    LET last_ts == IF lo <= hi THEN msgs[hi].timestamp ELSE NoTimestamp
    IN  [event_id |-> id,
         original_data |-> WithContent(msgs, lo, hi),
         timestamp |-> IF IsIsoDate(last_ts) THEN last_ts ELSE Today,
         summary |-> IF summary # <<>> THEN summary ELSE DefaultSummary]

\* A variant of append_memcell that opens the file for writing, not for
\* appending.
append_memcell_truncating(cells, memcell) == <<memcell>>

\* _append_memcell
append_memcell(cells, memcell) == Append(cells, memcell)

(***************************************************************************)
(* The long-term digest                                                    *)
(***************************************************************************)
\* line.strip().startswith("- ")
IsFactLine(line) == startswith(strip(line), <<"-", " ">>)

RECURSIVE HeaderLines(_)
\* the lines before the first bullet line
HeaderLines(lines) ==
    IF lines = <<>> \/ IsFactLine(lines[1]) THEN <<>>
    ELSE <<lines[1]>> \o HeaderLines(Tail(lines))

\* the lines from the first bullet line on
FactLines(lines) == SubSeq(lines, Len(HeaderLines(lines)) + 1, Len(lines))

\* facts[-keep:] if len(facts) > keep else facts   (facts[-0:] is facts)
KeptFacts(facts, keep) ==
    IF Len(facts) > keep /\ keep > 0
    THEN SubSeq(facts, Len(facts) - keep + 1, Len(facts))
    ELSE facts

\* A variant of compact_memory_text without the final cut at the cap.
compact_memory_text_uncut(content, max_chars) ==
    IF Len(content) <= max_chars THEN content
    ELSE LET lines == splitlines(strip(content))
             header == HeaderLines(lines)
             facts == FactLines(lines)
             keep == max_chars \div COMPACT_LINE_CHARS
         IN  join(header \o <<<<>>>> \o KeptFacts(facts, keep)) \o <<NL>>

\* _compact_memory_text(content) under the cap max_chars
compact_memory_text(content, max_chars) ==
    IF Len(content) <= max_chars THEN content
    ELSE LET lines == splitlines(strip(content))
             header == HeaderLines(lines)
             facts == FactLines(lines)
             keep == max_chars \div COMPACT_LINE_CHARS
             result == join(header \o <<<<>>>> \o KeptFacts(facts, keep)) \o <<NL>>
         IN  Prefix(result, max_chars)

\* new_fact = f"- {ts}: {topic_summary}"
NewFact(ts, topic_summary) == <<"-", " ">> \o ts \o <<":", " ">> \o topic_summary

\* A variant of fold_digest that folds the archive summary like any other.
fold_digest_any_summary(current_memory, ts, topic_summary, max_chars) ==
    IF topic_summary # <<>>
    THEN LET new_fact == NewFact(ts, topic_summary)
             updated == IF current_memory # <<>>
                        THEN rstrip(current_memory) \o <<NL>> \o new_fact \o <<NL>>
                        ELSE new_fact \o <<NL>>
         IN  IF ~Contains(current_memory, new_fact)
             THEN IF Len(updated) > max_chars
                  THEN compact_memory_text(updated, max_chars)
                  ELSE updated
             ELSE current_memory
    ELSE current_memory

\* Lines 540-547 of consolidate: MEMORY.md after the digest fold.
fold_digest(current_memory, ts, topic_summary, max_chars) ==
    IF topic_summary # <<>> /\ topic_summary # ArchiveSummary
    THEN LET new_fact == NewFact(ts, topic_summary)
             updated == IF current_memory # <<>>
                        THEN rstrip(current_memory) \o <<NL>> \o new_fact \o <<NL>>
                        ELSE new_fact \o <<NL>>
         IN  IF ~Contains(current_memory, new_fact)
             THEN IF Len(updated) > max_chars
                  THEN compact_memory_text(updated, max_chars)
                  ELSE updated
             ELSE current_memory
    ELSE current_memory

(***************************************************************************)
(* History files                                                           *)
(***************************************************************************)
\* The day of the HISTORY file append_history(entry) writes to.  The entry
\* "[YYYY-MM-DD..." is cut at [1:10], one character short of the date, and
\* strptime reads what is left of the day as a one-digit day.
history_file_day(entry) ==
    LET e == strip(entry)
    IN  IF startswith(e, <<"[">>)
        THEN LET part == SubSeq(e, 2, IF Len(e) < 2 THEN Len(e) ELSE 2)
             IN  IF part # <<>> /\ part[1] \in {"1", "2", "3", "4", "5", "6", "7", "8", "9"}
                 THEN <<"0", part[1]>>
                 ELSE Today
        ELSE Today

\* append_history(entry): the entry and a blank line, appended to its file
append_history(hist, entry) ==
    Append(hist, [file |-> history_file_day(entry),
                  text |-> rstrip(entry) \o <<NL, NL>>])

\* f"[{ts}] {text}"
HistoryEntry(ts, text) == <<"[">> \o ts \o <<"]", " ">> \o text

(***************************************************************************)
(* The cluster state file                                                  *)
(***************************************************************************)
EmptyClusterState ==
    [eventid_to_cluster |-> <<>>, cluster_counts |-> <<>>, cluster_last_ts |-> <<>>]

\* cluster_state.json: absent, unparseable, or a JSON object
AbsentFile == [kind |-> "absent", state |-> EmptyClusterState]
CorruptFile == [kind |-> "corrupt", state |-> EmptyClusterState]
JsonFile(state) == [kind |-> "json", state |-> state]

\* cluster_id_from_timestamp(ts)
cluster_id_from_timestamp(ts) == IF IsIsoDate(ts) THEN ts ELSE Today

\* load_cluster_state(path)
load_cluster_state(file) ==
    IF file.kind = "json" THEN file.state ELSE EmptyClusterState

\* d[k] = v
Put(d, k, v) == [x \in DOMAIN d \cup {k} |-> IF x = k THEN v ELSE d[x]]

\* d.get(k, default)
Get(d, k, default) == IF k \in DOMAIN d THEN d[k] ELSE default

\* A variant of assign_state that starts the mapping anew instead of adding
\* to the loaded one.
assign_state_anew(state, event_id, timestamp) ==
    LET cluster_id == cluster_id_from_timestamp(timestamp)
    IN  [eventid_to_cluster |->
             Put(EmptyClusterState.eventid_to_cluster, event_id, cluster_id),
         cluster_counts |->
             Put(state.cluster_counts, cluster_id,
                 Get(state.cluster_counts, cluster_id, 0) + 1),
         cluster_last_ts |-> Put(state.cluster_last_ts, cluster_id, timestamp)]

\* A variant of assign_state that adds the event id to a mapping of its own
\* when the loaded one is empty ("or {}" on the loaded mapping, never put
\* back into the state).
assign_state_detached(state, event_id, timestamp) ==
    LET cluster_id == cluster_id_from_timestamp(timestamp)
    IN  [eventid_to_cluster |->
             IF state.eventid_to_cluster = EmptyClusterState.eventid_to_cluster
             THEN state.eventid_to_cluster
             ELSE Put(state.eventid_to_cluster, event_id, cluster_id),
         cluster_counts |->
             Put(state.cluster_counts, cluster_id,
                 Get(state.cluster_counts, cluster_id, 0) + 1),
         cluster_last_ts |-> Put(state.cluster_last_ts, cluster_id, timestamp)]

\* A variant of assign_state that keeps the cluster an event id already has
\* (setdefault on the mapping instead of an assignment).
assign_state_keep_first(state, event_id, timestamp) ==
    LET cluster_id == cluster_id_from_timestamp(timestamp)
    IN  [eventid_to_cluster |->
             IF event_id \in DOMAIN state.eventid_to_cluster
             THEN state.eventid_to_cluster
             ELSE Put(state.eventid_to_cluster, event_id, cluster_id),
         cluster_counts |->
             Put(state.cluster_counts, cluster_id,
                 Get(state.cluster_counts, cluster_id, 0) + 1),
         cluster_last_ts |-> Put(state.cluster_last_ts, cluster_id, timestamp)]

\* Lines 53-64 of assign_memcell_to_cluster: the state after the assignment.
assign_state(state, event_id, timestamp) ==
    LET cluster_id == cluster_id_from_timestamp(timestamp)
    IN  [eventid_to_cluster |-> Put(state.eventid_to_cluster, event_id, cluster_id),
         cluster_counts |->
             Put(state.cluster_counts, cluster_id,
                 Get(state.cluster_counts, cluster_id, 0) + 1),
         cluster_last_ts |-> Put(state.cluster_last_ts, cluster_id, timestamp)]

\* save_cluster_state(path, state): the whole file is rewritten
save_cluster_state(state) == JsonFile(state)

\* A variant of get_cluster_event_ids with the comparison inverted.
get_cluster_event_ids_others(file, cluster_id) ==
    LET m == load_cluster_state(file).eventid_to_cluster
    IN  {eid \in DOMAIN m : m[eid] # cluster_id}

\* get_cluster_event_ids(path, cluster_id)
get_cluster_event_ids(file, cluster_id) ==
    LET m == load_cluster_state(file).eventid_to_cluster
    IN  {eid \in DOMAIN m : m[eid] = cluster_id}

(***************************************************************************)
(* USER.md                                                                 *)
(***************************************************************************)
\* USER.md by its lines; the file may not exist
NoUserMd == [exists |-> FALSE, lines |-> <<>>]
\* "(空)", what the extractor reads for a missing USER.md
EmptyProfile == "(empty)"
\* "## 对话学习 (Conversation-derived)"
ProfileSection == "## Conversation-derived"

RECURSIVE rstrip_lines(_)
\* the lines of current.rstrip()
rstrip_lines(lines) ==
    IF lines # <<>> /\ lines[Len(lines)] = ""
    THEN rstrip_lines(SubSeq(lines, 1, Len(lines) - 1))
    ELSE lines

\* Lines 450-461 of _extract_life_profile for one "add" operation of type
\* explicit_info whose description gives the bullet line: USER.md after it.
apply_profile_op(md, line) ==
    LET current == IF md.exists THEN md.lines ELSE <<EmptyProfile>>
        stripped == rstrip_lines(current)
    IN  IF stripped # <<>> /\ stripped[Len(stripped)] = line
        THEN md
        ELSE [exists |-> TRUE,
              lines |-> IF \E i \in 1..Len(current) : current[i] = ProfileSection
                        THEN Append(current, line)
                        ELSE stripped \o <<"", ProfileSection, "", line>>]

(***************************************************************************)
(* The state                                                               *)
(***************************************************************************)
VARIABLES
    messages,           \* session.messages
    last_consolidated,  \* session.last_consolidated, the consolidation cursor
    memcells,           \* memcells.jsonl
    cluster_state,      \* cluster_state.json
    episodes,           \* episodes.jsonl: the event ids of the episodes
    foresights,         \* foresights.jsonl: the event ids of the items
    history,            \* the HISTORY.<YYMMDD>.md files: the appended blocks
    user_md,            \* USER.md
    memory_md,          \* MEMORY.md
    next_id,            \* the next uuid4
    pc,                 \* where the consolidate call in progress is suspended
    call,               \* the arguments and locals of the call
    result,             \* what the last call returned
    outcome,            \* the path the last call returned on
    pre,                \* the cursor and the files when the call started
    oplog,              \* the steps of the call, in the order they completed
    provider_calls,     \* provider.chat calls the call has made
    replies,            \* what the provider replied to each extractor
    prev,               \* the call before this one
    grown,              \* the session grew since the last call returned
    failing,            \* the extractor prompts the provider answers badly
    io_fault,           \* the statement that can raise in this run
    calls,              \* how many calls were made
    run,                \* what the calls that returned were, taken together
    assigner,           \* the concurrent cluster assigners
    assigned,           \* the event ids whose assignment returned
    serialized,         \* the callers serialize the assignments
    assign_log,         \* the assignments that returned, in that order
    detector,           \* a _detect_boundary call made on its own
    compactor           \* a digest compaction or fold made on its own

vars == <<messages, last_consolidated, memcells, cluster_state, episodes,
          foresights, history, user_md, memory_md, next_id, pc, call, result,
          outcome, pre, oplog, provider_calls, replies, prev, grown,
          failing, io_fault, calls, run, assigner, assigned, serialized,
          assign_log, detector, compactor>>

consolidate_vars == <<messages, last_consolidated, memcells, episodes,
                      foresights, history, user_md, memory_md, next_id, pc,
                      call, result, outcome, pre, oplog, provider_calls,
                      replies, prev, grown, failing, io_fault, calls, run>>

assign_vars == <<assigner, assigned, serialized, assign_log>>

\* the persisted artifacts
Files ==
    [memcells |-> memcells, cluster_state |-> cluster_state,
     episodes |-> episodes, foresights |-> foresights, history |-> history,
     user_md |-> user_md, memory_md |-> memory_md]

NoMemCell ==
    [event_id |-> 0, original_data |-> <<>>, timestamp |-> Today,
     summary |-> <<>>]

NoCall ==
    [archive_all |-> FALSE, keep_count |-> 0, pending |-> <<>>, lo |-> 1,
     hi |-> 0, attempt |-> 0, memcell |-> NoMemCell, topic_summary |-> <<>>,
     raised |-> "none"]

\* What a consolidate call reads and writes, as one record: the blocks of
\* the call below map such a record to the next.
Cur ==
    [cursor |-> last_consolidated, memcells |-> memcells,
     cluster_state |-> cluster_state, episodes |-> episodes,
     foresights |-> foresights, history |-> history, user_md |-> user_md,
     memory_md |-> memory_md, next_id |-> next_id, pc |-> pc, call |-> call,
     result |-> result, outcome |-> outcome, oplog |-> oplog,
     provider_calls |-> provider_calls, replies |-> replies]

Set(st) ==
    /\ last_consolidated' = st.cursor
    /\ memcells' = st.memcells
    /\ cluster_state' = st.cluster_state
    /\ episodes' = st.episodes
    /\ foresights' = st.foresights
    /\ history' = st.history
    /\ user_md' = st.user_md
    /\ memory_md' = st.memory_md
    /\ next_id' = st.next_id
    /\ pc' = st.pc
    /\ call' = st.call
    /\ result' = st.result
    /\ outcome' = st.outcome
    /\ oplog' = st.oplog
    /\ provider_calls' = st.provider_calls
    /\ replies' = st.replies

Logged(st, step) == [st EXCEPT !.oplog = Append(@, step)]

(***************************************************************************)
(* consolidate, block by block: a block runs from one provider call (or    *)
(* the entry) to the next provider call or to the return.  fault names the *)
(* statement of the block that raises, "none" when none does.              *)
(***************************************************************************)
\* return True
return_true(st, path) ==
    [st EXCEPT !.pc = "done", !.result = TRUE, !.outcome = path]

\* A variant of return_false that moves the cursor to the end of the span.
return_false_advancing(st, fault) ==
    [st EXCEPT !.pc = "done", !.result = FALSE, !.outcome = "failed",
               !.call.raised = fault,
               !.cursor = IF st.call.archive_all THEN 0 ELSE st.call.hi]

\* except Exception: logger.exception(...); return False
return_false(st, fault) ==
    [st EXCEPT !.pc = "done", !.result = FALSE, !.outcome = "failed",
               !.call.raised = fault]

\* Two variants of advance_cursor: one moves the cursor past the kept
\* messages too, the other leaves it where it is.
advance_cursor_to_end(st, msgs) ==
    [st EXCEPT !.cursor = IF st.call.archive_all THEN 0 ELSE Len(msgs)]

advance_cursor_skipped(st, msgs) == st

\* A variant of advance_cursor that sets the cursor to the length of the
\* span, not to its end.
advance_cursor_span_length(st, msgs) ==
    [st EXCEPT !.cursor = IF st.call.archive_all THEN 0
                          ELSE Max(0, st.call.hi - st.call.lo + 1)]

\* A variant of advance_cursor that keeps a whole window, not half of it,
\* after the cursor.
advance_cursor_full_window(st, msgs) ==
    [st EXCEPT !.cursor = IF st.call.archive_all THEN 0
                          ELSE Max(0, Len(msgs) - 2 * st.call.keep_count)]

\* session.last_consolidated = 0 if archive_all else len(messages) - keep_count
advance_cursor(st, msgs) ==
    [st EXCEPT !.cursor = IF st.call.archive_all THEN 0
                          ELSE Len(msgs) - st.call.keep_count]

\* A variant of finish that advances the cursor before the history entry
\* and the digest fold.
finish_cursor_first(st, msgs, fault) ==
    LET ts == st.call.memcell.timestamp
        st0 == Logged(advance_cursor(st, msgs), "cursor")
        st1 == Logged([st0 EXCEPT !.history =
                          append_history(@, HistoryEntry(ts, st.call.topic_summary))],
                      "history")
        st2 == Logged([st1 EXCEPT !.memory_md =
                          fold_digest(@, ts, st.call.topic_summary, MemoryMdMaxChars)],
                      "digest")
    IN  IF fault = "history" THEN return_false(st0, fault)
        ELSE IF fault = "digest" THEN return_false(st1, fault)
        ELSE return_true(st2, "closed")

\* Lines 536-551: the history entry, the digest fold, the cursor.
finish(st, msgs, fault) ==
    LET ts == st.call.memcell.timestamp
        st1 == Logged([st EXCEPT !.history =
                          append_history(@, HistoryEntry(ts, st.call.topic_summary))],
                      "history")
        st2 == Logged([st1 EXCEPT !.memory_md =
                          fold_digest(@, ts, st.call.topic_summary, MemoryMdMaxChars)],
                      "digest")
    IN  IF fault = "history" THEN return_false(st, fault)
        ELSE IF fault = "digest" THEN return_false(st1, fault)
        ELSE return_true(Logged(advance_cursor(st2, msgs), "cursor"), "closed")

\* Lines 428-432 of _extract_life_profile, up to its provider call: nothing
\* is asked for an empty conversation, and reading USER.md is outside the try.
begin_life_profile(st, msgs, fault) ==
    IF st.call.memcell.original_data = <<>>
    THEN finish(Logged(st, "profile"), msgs, fault)
    ELSE IF fault = "profile" THEN return_false(st, fault)
    ELSE [st EXCEPT !.pc = "profile"]

\* Lines 522-529 and _extract_episode up to its provider call: the MemCell
\* is built and appended and assigned to its cluster.
close_episode(st, msgs, fault) ==
    LET memcell == create_memcell(msgs, st.call.lo, st.call.hi,
                                  st.call.topic_summary, st.next_id)
        st1 == Logged([st EXCEPT !.memcells = append_memcell(@, memcell),
                                 !.next_id = @ + 1,
                                 !.call.memcell = memcell],
                      "memcell")
        st2 == Logged([st1 EXCEPT !.cluster_state =
                          save_cluster_state(
                              assign_state(load_cluster_state(@),
                                           memcell.event_id, memcell.timestamp))],
                      "cluster")
    IN  IF fault = "memcell" THEN return_false(st, fault)
        ELSE IF fault = "cluster" THEN return_false(st1, fault)
        ELSE [st2 EXCEPT !.pc = "episode"]

\* A variant of after_decision that advances the cursor when the episode
\* has not ended.
after_decision_advancing(st, msgs, d, fault) ==
    IF ~d.end /\ ~st.call.archive_all
    THEN return_true(advance_cursor(st, msgs), "notend")
    ELSE close_episode([st EXCEPT !.call.topic_summary = d.summary], msgs, fault)

\* Lines 518-520: the decision of the boundary detector taken.
after_decision(st, msgs, d, fault) ==
    IF ~d.end /\ ~st.call.archive_all
    THEN return_true(st, "notend")
    ELSE close_episode([st EXCEPT !.call.topic_summary = d.summary], msgs, fault)

\* Lines 498-513: the history and the new slice given to the detector.
history_for_detect(msgs, c) ==
    IF c.pending # <<>> THEN SubSeq(msgs, c.lo, c.hi)
    ELSE SubSeq(msgs, c.lo, c.hi - 1)

new_for_detect(msgs, c) ==
    IF c.pending # <<>> THEN c.pending
    ELSE SubSeq(msgs, c.hi, c.hi)

\* Lines 476-516: the span is selected and, in normal mode, the boundary
\* detector runs up to its first provider call.
consolidate(st, msgs, archive_all, memory_window, pending, fault) ==
    LET keep_count == IF archive_all THEN 0 ELSE memory_window \div 2
        lo == IF archive_all THEN 1 ELSE st.cursor + 1
        hi == IF archive_all THEN Len(msgs)
              ELSE IF keep_count = 0 THEN 0 ELSE Len(msgs) - keep_count
        n == Max(0, hi - lo + 1)
        c == [NoCall EXCEPT !.archive_all = archive_all,
                            !.keep_count = keep_count,
                            !.pending = pending, !.lo = lo, !.hi = hi]
        st0 == [st EXCEPT !.call = c, !.oplog = <<>>, !.provider_calls = 0,
                          !.replies = <<>>]
        pre_check == detect_boundary_pre(history_for_detect(msgs, c),
                                         new_for_detect(msgs, c))
    IN  IF ~archive_all /\ (Len(msgs) <= keep_count
                            \/ Len(msgs) - st.cursor <= 0
                            \/ n = 0)
        THEN return_true(st0, "empty")
        ELSE IF n < 2
        THEN return_true(advance_cursor(st0, msgs), "short")
        ELSE IF archive_all
        THEN after_decision(st0, msgs, Decision(TRUE, FALSE, ArchiveSummary), fault)
        ELSE IF ~pre_check.ask /\ (pre_check.d.end \/ pre_check.d.wait)
        THEN \* returned at line 206 or 213, before the prompt is formatted
             after_decision(st0, msgs, pre_check.d, fault)
        ELSE IF fault = "detect" THEN return_false(st0, fault)
        ELSE IF pre_check.ask THEN [st0 EXCEPT !.pc = "boundary"]
        ELSE after_decision(st0, msgs, pre_check.d, fault)

\* Lines 229-253: the provider replied to attempt call.attempt of the
\* boundary prompt (or the call raised).
detect_boundary_reply(st, msgs, reply, fault) ==
    LET st1 == [st EXCEPT !.provider_calls = @ + 1,
                          !.call.attempt = @ + 1]
    IN  IF boundary_attempt_ok(reply)
        THEN after_decision(st1, msgs, boundary_attempt_decision(reply), fault)
        ELSE IF st1.call.attempt >= BOUNDARY_ATTEMPTS
        THEN after_decision(st1, msgs, boundary_exhausted, fault)
        ELSE st1

(***************************************************************************)
(* The extractors.  A reply is classed by the path it takes through the    *)
(* extractor: the call raises; no JSON is found in the text or it does not *)
(* parse ("garbage"); it parses to a value of the wrong shape, on which    *)
(* the extractor raises before it writes ("badshape"); it is well formed   *)
(* ("ok").  For the life profile, "partial" is an operations list whose    *)
(* first entry is well formed and whose second is no JSON object.          *)
(***************************************************************************)
ExtractorReplies == {"raise", "garbage", "badshape", "ok"}
ProfileReplies == ExtractorReplies \cup {"partial"}

Extractors == {"episode", "eventlog", "foresight", "profile"}

\* The statements of consolidate's try block that raise past their own
\* handlers: formatting the boundary prompt (line 215), the append to
\* memcells.jsonl (301), the rewrite of cluster_state.json (42), the read of
\* USER.md (432), the append to a HISTORY file (114) and the read or rewrite
\* of MEMORY.md (98, 102).
FaultSites == {"detect", "memcell", "cluster", "profile", "history", "digest"}

\* What can raise now: the statement picked for this run, or nothing.
Faults == {"none", io_fault}

\* The replies the provider gives to an extractor's prompt in this run: well
\* formed, unless the prompt is one it answers badly.
RepliesTo(extractor) ==
    IF extractor \in failing
    THEN (IF extractor = "profile" THEN ProfileReplies ELSE ExtractorReplies) \ {"ok"}
    ELSE {"ok"}

\* the atomic fact and the profile line of the well-formed replies
Fact == <<"f">>
ProfileLine == "- d"

\* The provider call of an extractor is over: replies keeps whether the
\* extractor got a well-formed reply ("ok") or not ("failed").
Replied(st, extractor, reply) ==
    Logged([st EXCEPT !.provider_calls = @ + 1,
                      !.replies = Put(@, extractor,
                                      IF reply = "ok" THEN "ok" ELSE "failed")],
           extractor)

\* _extract_episode from its provider call on, and _extract_eventlog up to
\* its provider call.
extract_episode(st, reply) ==
    LET st1 == IF reply = "ok"
               THEN [st EXCEPT !.episodes = Append(@, st.call.memcell.event_id)]
               ELSE st
    IN  [Replied(st1, "episode", reply) EXCEPT !.pc = "eventlog"]

\* _extract_eventlog from its provider call on, and _extract_foresight up
\* to its provider call.
extract_eventlog(st, reply) ==
    LET st1 == IF reply = "ok"
               THEN [st EXCEPT !.history =
                        append_history(@, HistoryEntry(st.call.memcell.timestamp, Fact))]
               ELSE st
    IN  [Replied(st1, "eventlog", reply) EXCEPT !.pc = "foresight"]

\* _extract_foresight from its provider call on, then _extract_life_profile
\* up to its provider call.
extract_foresight(st, msgs, reply, fault) ==
    LET st1 == IF reply = "ok"
               THEN [st EXCEPT !.foresights = Append(@, st.call.memcell.event_id)]
               ELSE st
    IN  begin_life_profile(Replied(st1, "foresight", reply), msgs, fault)

\* _extract_life_profile from its provider call on, then the rest of
\* consolidate.
extract_life_profile(st, msgs, reply, fault) ==
    LET st1 == IF reply \in {"ok", "partial"}
               THEN [st EXCEPT !.user_md = apply_profile_op(@, ProfileLine)]
               ELSE st
    IN  finish(Replied(st1, "profile", reply), msgs, fault)

(***************************************************************************)
(* The inputs                                                              *)
(***************************************************************************)
Day15 == <<"1", "5">>
Copies(k, m) == [i \in 1..k |-> m]
\* what the session grows by between two calls
Batches ==
    {Copies(2, Message(3, Day15)), Copies(3, Message(3, Day15)),
     Copies(3, Message(0, Day15)),
     Copies(HARD_MESSAGE_LIMIT, Message(3, Day15))}
MemoryWindows == {2, 4}
PendingMessages == {<<>>, <<Message(3, Today)>>}
Summaries == {<<>>, <<"a">>, <<"b">>}
BoundaryReplies ==
    {BoundaryReply(TRUE, FALSE, "absent", "absent", <<>>),
     BoundaryReply(FALSE, FALSE, "absent", "absent", <<>>),
     BoundaryReply(FALSE, TRUE, "false", "true", <<>>)}
    \cup {BoundaryReply(FALSE, TRUE, "true", "false", s) : s \in Summaries}
EventIds == {1, 2}
Assigners == {1, 2}
AssignTimestamps == {Day15, BadTimestamp}

(***************************************************************************)
(* The actions of a session and its consolidation                          *)
(***************************************************************************)
NoPrev ==
    [called |-> FALSE, outcome |-> "none", archive_all |-> FALSE,
     keep_count |-> 0]

\* The session grows between two consolidate calls.
AddMessages(batch) ==
    /\ pc = "idle"
    /\ ~grown
    /\ calls < MaxCalls
    /\ messages' = messages \o batch
    /\ grown' = TRUE
    /\ UNCHANGED <<last_consolidated, memcells, cluster_state, episodes,
                   foresights, history, user_md, memory_md, next_id, pc, call,
                   result, outcome, pre, oplog, provider_calls, replies, prev,
                   failing, io_fault, calls, run>>
    /\ UNCHANGED <<assign_vars, detector, compactor>>

\* consolidate(session, provider, model, archive_all=..., memory_window=...,
\* pending_user_message=...) is called.
Consolidate(archive_all, memory_window, pending, fault) ==
    /\ pc = "idle"
    /\ calls < MaxCalls
    /\ Set(consolidate(Cur, messages, archive_all, memory_window, pending, fault))
    /\ pre' = [cursor |-> last_consolidated, files |-> Files,
               repeat |-> prev.called /\ ~grown]
    /\ calls' = calls + 1
    /\ UNCHANGED <<messages, prev, grown, failing, io_fault, run>>
    /\ UNCHANGED <<assign_vars, detector, compactor>>

Continue(st) ==
    /\ Set(st)
    /\ UNCHANGED <<messages, pre, prev, grown, failing, io_fault, calls, run>>
    /\ UNCHANGED <<assign_vars, detector, compactor>>

\* The provider answers an attempt of the boundary prompt.
DetectBoundaryReply(reply, fault) ==
    /\ pc = "boundary"
    /\ Continue(detect_boundary_reply(Cur, messages, reply, fault))

\* The provider answers the episode prompt.
ExtractEpisode(reply) ==
    /\ pc = "episode"
    /\ Continue(extract_episode(Cur, reply))

\* The provider answers the event-log prompt.
ExtractEventlog(reply) ==
    /\ pc = "eventlog"
    /\ Continue(extract_eventlog(Cur, reply))

\* The provider answers the foresight prompt.
ExtractForesight(reply, fault) ==
    /\ pc = "foresight"
    /\ Continue(extract_foresight(Cur, messages, reply, fault))

\* The provider answers the life-profile prompt.
ExtractLifeProfile(reply, fault) ==
    /\ pc = "profile"
    /\ Continue(extract_life_profile(Cur, messages, reply, fault))

\* No call has returned yet.
NoRun == [normal |-> TRUE, succeeded |-> TRUE, keep_counts |-> {},
          skipped |-> {}]

\* The calls that returned, with the call c that returns now on the path
\* path: whether all were in normal mode, whether all returned true, their
\* keep counts, and the messages that the return of lines 489-491 moved
\* the cursor past, a span of one message in normal mode.
RunWith(r, c, path) ==
    [normal |-> r.normal /\ ~c.archive_all,
     succeeded |-> r.succeeded /\ path # "failed",
     keep_counts |-> r.keep_counts \cup {c.keep_count},
     skipped |-> r.skipped \cup
                     (IF path = "short" /\ ~c.archive_all /\ c.hi = c.lo
                      THEN {c.lo} ELSE {})]

\* The caller has the result; the call's locals are gone.
Return ==
    /\ pc = "done"
    /\ pc' = "idle"
    /\ prev' = [called |-> TRUE, outcome |-> outcome,
                archive_all |-> call.archive_all,
                keep_count |-> call.keep_count]
    /\ call' = NoCall
    /\ pre' = [cursor |-> last_consolidated, files |-> Files, repeat |-> FALSE]
    /\ oplog' = <<>>
    /\ provider_calls' = 0
    /\ replies' = <<>>
    /\ grown' = FALSE
    /\ run' = RunWith(run, call, outcome)
    /\ UNCHANGED <<messages, last_consolidated, memcells, cluster_state,
                   episodes, foresights, history, user_md, memory_md, next_id,
                   result, outcome, failing, io_fault, calls>>
    /\ UNCHANGED <<assign_vars, detector, compactor>>

(***************************************************************************)
(* Cluster assignments by concurrent callers                               *)
(***************************************************************************)
IdleAssigner ==
    [pc |-> "idle", event_id |-> 0, timestamp |-> NoTimestamp,
     state |-> EmptyClusterState, loaded |-> "none", done |-> 0]

\* External serialization per workspace, which the callers owe: a caller
\* that serializes starts no assignment while another one runs.
CallersSerialize ==
    serialized => \A q \in Assigners : assigner[q].pc = "idle"

\* assign_memcell_to_cluster(event_id, timestamp, path), line 52: the state
\* is loaded.
AssignLoad(p, event_id, timestamp) ==
    /\ assigner[p].pc = "idle"
    /\ assigner[p].done < MaxAssign
    /\ CallersSerialize
    /\ assigner' = [assigner EXCEPT ![p] =
                       [@ EXCEPT !.pc = "loaded", !.event_id = event_id,
                                 !.timestamp = timestamp,
                                 !.state = load_cluster_state(cluster_state),
                                 !.loaded = cluster_state.kind]]
    /\ UNCHANGED <<cluster_state, assigned, serialized, assign_log>>
    /\ UNCHANGED <<consolidate_vars, detector, compactor>>

\* Lines 53-66: the loaded state is changed, the file rewritten and the
\* cluster id returned.
AssignSave(p) ==
    /\ assigner[p].pc = "loaded"
    /\ cluster_state' = save_cluster_state(
                            assign_state(assigner[p].state, assigner[p].event_id,
                                         assigner[p].timestamp))
    /\ assigned' = assigned \cup {assigner[p].event_id}
    /\ assign_log' = Append(assign_log,
                            [event_id |-> assigner[p].event_id,
                             cluster_id |->
                                 cluster_id_from_timestamp(assigner[p].timestamp),
                             loaded |-> assigner[p].loaded])
    /\ assigner' = [assigner EXCEPT ![p] =
                       [IdleAssigner EXCEPT !.done = assigner[p].done + 1]]
    /\ UNCHANGED serialized
    /\ UNCHANGED <<consolidate_vars, detector, compactor>>

(***************************************************************************)
(* _detect_boundary called on its own with a history and a new slice.  The *)
(* call is suspended at each provider.chat of the retry loop.              *)
(***************************************************************************)
NoDecision == Decision(FALSE, FALSE, <<>>)
NoReply == BoundaryReply(FALSE, FALSE, "absent", "absent", <<>>)

\* the detector before it is called with the two slices
IdleDetector(history_msgs, new_msgs) ==
    [pc |-> "idle", history_msgs |-> history_msgs, new_msgs |-> new_msgs,
     attempt |-> 0, provider_calls |-> 0, failed |-> 0,
     reply |-> NoReply, decision |-> NoDecision]

\* a message of k tokens
MessageOfTokens(k) == Message(CHARS_PER_TOKEN * k - IsoChars, Day15)
\* what two short history messages leave of the token ceiling
CeilingRest ==
    HARD_TOKEN_LIMIT - estimate_total_tokens(Copies(2, Message(3, Day15)))

DetectorHistories ==
    {Copies(k, Message(3, Day15)) :
        k \in {0, 1, 2, HARD_MESSAGE_LIMIT - 1, HARD_MESSAGE_LIMIT}}
DetectorNews ==
    {<<>>, <<Message(3, Day15)>>, <<MessageOfTokens(CeilingRest)>>,
     <<MessageOfTokens(CeilingRest - 1)>>,
     <<MessageOfTokens(HARD_TOKEN_LIMIT)>>}
DetectorReplies ==
    {BoundaryReply(TRUE, FALSE, "absent", "absent", <<>>),
     BoundaryReply(FALSE, FALSE, "absent", "absent", <<>>)}
    \cup {BoundaryReply(FALSE, TRUE, e, w, s) :
              e \in FieldValues, w \in FieldValues, s \in {<<>>, <<"a">>}}

\* Lines 205-220: the checks made before any provider call.
DetectorCall ==
    /\ detector.pc = "idle"
    /\ LET pre_check == detect_boundary_pre(detector.history_msgs,
                                            detector.new_msgs)
       IN  detector' =
               IF pre_check.ask
               THEN [detector EXCEPT !.pc = "asking"]
               ELSE [detector EXCEPT !.pc = "returned",
                                     !.decision = pre_check.d]
    /\ UNCHANGED <<consolidate_vars, assign_vars, cluster_state, compactor>>

\* Lines 229-253: one pass of the retry loop around provider.chat.
DetectorAttempt(reply) ==
    /\ detector.pc = "asking"
    /\ LET asked == [detector EXCEPT !.attempt = @ + 1,
                                     !.provider_calls = @ + 1,
                                     !.reply = reply]
       IN  detector' =
               IF boundary_attempt_ok(reply)
               THEN [asked EXCEPT !.pc = "returned",
                                  !.decision = boundary_attempt_decision(reply)]
               ELSE IF asked.attempt >= BOUNDARY_ATTEMPTS
               THEN [asked EXCEPT !.pc = "returned", !.failed = @ + 1,
                                  !.decision = boundary_exhausted]
               ELSE [asked EXCEPT !.failed = @ + 1]
    /\ UNCHANGED <<consolidate_vars, assign_vars, cluster_state, compactor>>

(***************************************************************************)
(* _compact_memory_text and the digest fold of consolidate, applied on     *)
(* their own to a MEMORY.md text under a cap.                              *)
(***************************************************************************)
\* the function before it is applied
IdleCompactor(content, max_chars) ==
    [pc |-> "idle", op |-> "none", content |-> content,
     max_chars |-> max_chars, topic_summary |-> <<>>, result |-> <<>>]

\* a line of n characters c
TextLine(c, n) == [i \in 1..n |-> c]
\* the k-th bullet line, with a body of n characters
BulletLine(k, n) == <<"-", " ">> \o TextLine(Digits[k + 1], n)

\* the lines before the bullets
CompactHeaders ==
    {<<>>, <<TextLine("#", 3)>>, <<TextLine("#", 3), <<>>>>,
     <<TextLine("#", 3), TextLine("h", 90)>>}
\* the bullet lines, oldest first
CompactFacts ==
    {[k \in 1..n |-> BulletLine(k, len)] : n \in 0..3, len \in {3, 60, 100}}
\* MEMORY.md texts
CompactContents ==
    {IF header \o facts = <<>> THEN <<>> ELSE join(header \o facts) \o <<NL>> :
        header \in CompactHeaders, facts \in CompactFacts}
\* config.memory_md_max_chars
CompactCaps == {16, 80, 160, 240}
FoldSummaries == {<<>>, <<"a">>, ArchiveSummary, TextLine("3", 3)}

\* _compact_memory_text(content)
CompactMemoryText ==
    /\ compactor.pc = "idle"
    /\ compactor' = [compactor EXCEPT
                         !.pc = "returned", !.op = "compact",
                         !.result = compact_memory_text(compactor.content,
                                                        compactor.max_chars)]
    /\ UNCHANGED <<consolidate_vars, assign_vars, cluster_state, detector>>

\* Lines 540-547 of consolidate: the summary of an episode of day ts is
\* folded into MEMORY.md; result is the file after it.
FoldDigest(ts, topic_summary) ==
    /\ compactor.pc = "idle"
    /\ compactor' = [compactor EXCEPT
                         !.pc = "returned", !.op = "fold",
                         !.topic_summary = topic_summary,
                         !.result = fold_digest(compactor.content, ts,
                                                topic_summary,
                                                compactor.max_chars)]
    /\ UNCHANGED <<consolidate_vars, assign_vars, cluster_state, detector>>

(***************************************************************************)
(* The specifications                                                      *)
(***************************************************************************)
InitSession ==
    /\ messages = <<>>
    /\ last_consolidated = 0
    /\ memcells = <<>>
    /\ episodes = <<>>
    /\ foresights = <<>>
    /\ history = <<>>
    /\ user_md = NoUserMd
    /\ memory_md = <<>>
    /\ next_id = 1
    /\ pc = "idle"
    /\ call = NoCall
    /\ result = TRUE
    /\ outcome = "none"
    /\ pre = [cursor |-> 0,
              files |-> [memcells |-> <<>>, cluster_state |-> AbsentFile,
                         episodes |-> <<>>, foresights |-> <<>>,
                         history |-> <<>>, user_md |-> NoUserMd,
                         memory_md |-> <<>>],
              repeat |-> FALSE]
    /\ oplog = <<>>
    /\ provider_calls = 0
    /\ replies = <<>>
    /\ prev = NoPrev
    /\ grown = FALSE
    /\ calls = 0
    /\ run = NoRun

InitAssigners ==
    /\ assigner = [p \in Assigners |-> IdleAssigner]
    /\ assigned = {}
    /\ assign_log = <<>>

\* One session consolidated call after call.  In a run either the provider
\* answers some of the extractor prompts badly or one statement can raise.
Init ==
    /\ InitSession
    /\ InitAssigners
    /\ detector = IdleDetector(<<>>, <<>>)
    /\ compactor = IdleCompactor(<<>>, MemoryMdMaxChars)
    /\ cluster_state = AbsentFile
    /\ serialized = TRUE
    /\ failing \in SUBSET Extractors
    /\ io_fault \in FaultSites \cup {"none"}
    /\ failing = {} \/ io_fault = "none"

Next ==
    \/ \E b \in Batches : AddMessages(b)
    \/ \E a \in BOOLEAN, w \in MemoryWindows, p \in PendingMessages,
          f \in Faults :
          Consolidate(a, w, p, f)
    \/ \E r \in BoundaryReplies, f \in Faults : DetectBoundaryReply(r, f)
    \/ \E r \in RepliesTo("episode") : ExtractEpisode(r)
    \/ \E r \in RepliesTo("eventlog") : ExtractEventlog(r)
    \/ \E r \in RepliesTo("foresight"), f \in Faults : ExtractForesight(r, f)
    \/ \E r \in RepliesTo("profile"), f \in Faults : ExtractLifeProfile(r, f)
    \/ Return

Spec == Init /\ [][Next]_vars

\* Two callers assigning MemCells to clusters over one workspace.
InitCluster ==
    /\ InitSession
    /\ InitAssigners
    /\ detector = IdleDetector(<<>>, <<>>)
    /\ compactor = IdleCompactor(<<>>, MemoryMdMaxChars)
    /\ cluster_state \in {AbsentFile, CorruptFile}
    /\ serialized \in BOOLEAN
    /\ failing = {}
    /\ io_fault = "none"

NextCluster ==
    \/ \E p \in Assigners, e \in EventIds, t \in AssignTimestamps :
          AssignLoad(p, e, t)
    \/ \E p \in Assigners : AssignSave(p)

SpecCluster == InitCluster /\ [][NextCluster]_vars

\* _detect_boundary over the histories and new slices of DetectorHistories
\* and DetectorNews.
InitBoundary ==
    /\ InitSession
    /\ InitAssigners
    /\ cluster_state = AbsentFile
    /\ serialized = TRUE
    /\ failing = {}
    /\ io_fault = "none"
    /\ \E h \in DetectorHistories, n \in DetectorNews :
           detector = IdleDetector(h, n)
    /\ compactor = IdleCompactor(<<>>, MemoryMdMaxChars)

NextBoundary ==
    \/ DetectorCall
    \/ \E r \in DetectorReplies : DetectorAttempt(r)

SpecBoundary == InitBoundary /\ [][NextBoundary]_vars

\* _compact_memory_text and the digest fold over the texts of
\* CompactContents under the caps of CompactCaps.
InitCompact ==
    /\ InitSession
    /\ InitAssigners
    /\ detector = IdleDetector(<<>>, <<>>)
    /\ cluster_state = AbsentFile
    /\ serialized = TRUE
    /\ failing = {}
    /\ io_fault = "none"
    /\ \E content \in CompactContents, max_chars \in CompactCaps :
           compactor = IdleCompactor(content, max_chars)

NextCompact ==
    \/ CompactMemoryText
    \/ \E s \in FoldSummaries : FoldDigest(Day15, s)

SpecCompact == InitCompact /\ [][NextCompact]_vars

(***************************************************************************)
(* The properties.  pre holds the cursor and the files as they were when   *)
(* the running call was entered; at pc = "done" the call has returned and  *)
(* its locals are still there to be looked at.                             *)
(***************************************************************************)
Steps == {oplog[i] : i \in DOMAIN oplog}

IsPrefix(s, t) == Len(s) <= Len(t) /\ SubSeq(t, 1, Len(s)) = s

SpanLen == Max(0, call.hi - call.lo + 1)

EventIdsIn(file) == DOMAIN load_cluster_state(file).eventid_to_cluster

\* the steps of a call that closes an episode, in the order of the code
StepOrder ==
    <<"memcell", "cluster", "episode", "eventlog", "foresight", "profile",
      "history", "digest", "cursor">>

\* C1: consolidate always returns a boolean, and it returns false exactly
\* when a step after the span selection raised; then the cursor has the
\* value it had before the call, and what was appended before the exception
\* is still there: the MemCell, its cluster assignment, the artifacts of the
\* extractors that ran and the history entry.
C1_FailureKeepsCursor ==
    pc = "done" =>
        /\ result \in BOOLEAN
        /\ (result = FALSE) <=> (call.raised # "none")
        /\ call.raised # "none" =>
              /\ outcome = "failed"
              /\ last_consolidated = pre.cursor
              /\ memcells = IF "memcell" \in Steps
                            THEN Append(pre.files.memcells, call.memcell)
                            ELSE pre.files.memcells
              /\ "cluster" \in Steps =>
                    call.memcell.event_id \in EventIdsIn(cluster_state)
              /\ EventIdsIn(pre.files.cluster_state) \subseteq EventIdsIn(cluster_state)
              /\ IsPrefix(pre.files.episodes, episodes)
              /\ IsPrefix(pre.files.foresights, foresights)
              /\ IsPrefix(pre.files.history, history)
              /\ "history" \in Steps => Len(history) > Len(pre.files.history)

\* A call failed on the digest fold, after the MemCell, its cluster
\* assignment and the history entry were written; the span was not empty.
C1_Witness ==
    /\ pc = "done"
    /\ result = FALSE
    /\ call.raised = "digest"
    /\ ~call.archive_all
    /\ SpanLen >= 2
    /\ last_consolidated = pre.cursor
    /\ memcells = Append(pre.files.memcells, call.memcell)
    /\ call.memcell.event_id \in EventIdsIn(cluster_state)
    /\ Len(history) > Len(pre.files.history)

\* C2: in a call that closes an episode the steps are taken in the order
\* MemCell append, cluster assignment, episode, event log, foresight, life
\* profile, history entry, digest fold, cursor: what has been done is always
\* an initial part of that order, the prompt of an extractor is with the
\* provider only when the extractors before it are over, and the cursor is
\* set last.
C2_FixedOrder ==
    /\ IsPrefix(oplog, StepOrder)
    /\ pc = "episode" => oplog = SubSeq(StepOrder, 1, 2)
    /\ pc = "eventlog" => oplog = SubSeq(StepOrder, 1, 3)
    /\ pc = "foresight" => oplog = SubSeq(StepOrder, 1, 4)
    /\ pc = "profile" => oplog = SubSeq(StepOrder, 1, 5)
    /\ (pc = "done" /\ outcome = "closed") => oplog = StepOrder
    /\ (oplog # <<>> /\ oplog # StepOrder) => last_consolidated = pre.cursor
    /\ (pc \notin {"idle", "done"}) => last_consolidated = pre.cursor

\* A call closed an episode: every step was taken and the cursor moved.
C2_Witness ==
    /\ pc = "done"
    /\ outcome = "closed"
    /\ oplog = StepOrder
    /\ provider_calls >= 4
    /\ last_consolidated # pre.cursor

\* C3: when the boundary decision is not-end and archive_all is false,
\* consolidate returns true and leaves the cursor and every file as they
\* were before the call.
C3_NotEndChangesNothing ==
    (pc = "done" /\ outcome = "notend") =>
        /\ ~call.archive_all
        /\ result = TRUE
        /\ last_consolidated = pre.cursor
        /\ Files = pre.files
        /\ oplog = <<>>

\* The provider was asked and the decision was not-end, in a session that
\* had an episode closed before.
C3_Witness ==
    /\ pc = "done"
    /\ outcome = "notend"
    /\ provider_calls > 0
    /\ SpanLen >= 2
    /\ memcells # <<>>
    /\ Files = pre.files
    /\ last_consolidated = pre.cursor


\* C4 as stated: whenever the candidate span has fewer than two messages,
\* consolidate sets the cursor to the end of the span, len(messages) -
\* memory_window // 2 in normal mode, returns true, calls no provider and
\* produces no artifact.
C4_ShortSpanAdvancesCursor ==
    (pc = "done" /\ SpanLen < 2) =>
        /\ result = TRUE
        /\ provider_calls = 0
        /\ Files = pre.files
        /\ last_consolidated = IF call.archive_all THEN 0
                               ELSE Len(messages) - call.keep_count

\* C4, amended: with fewer than two messages in the span consolidate
\* returns true, calls no provider and produces no artifact; with one
\* message in the span (or in archive mode) it sets the cursor to
\* len(messages) - memory_window // 2 (to 0 in archive mode), and with an
\* empty span in normal mode it leaves the cursor where it was.
C4_ShortSpan ==
    (pc = "done" /\ SpanLen < 2) =>
        /\ result = TRUE
        /\ provider_calls = 0
        /\ oplog = <<>>
        /\ Files = pre.files
        /\ outcome \in {"empty", "short"}
        /\ (outcome = "empty") <=> (~call.archive_all /\ SpanLen = 0)
        /\ outcome = "short" =>
              last_consolidated = IF call.archive_all THEN 0
                                  ELSE Len(messages) - call.keep_count
        /\ outcome = "empty" => last_consolidated = pre.cursor

\* One message in the span, in normal mode: the cursor moved over it.
C4_Witness ==
    /\ pc = "done"
    /\ ~call.archive_all
    /\ SpanLen = 1
    /\ outcome = "short"
    /\ last_consolidated = pre.cursor + 1
    /\ last_consolidated = Len(messages) - call.keep_count
    /\ Files = pre.files

\* C5 as stated: a consolidate call on a session whose cursor and messages
\* are as the previous call left them appends no MemCell, whatever the mode
\* and the replies.
C5_RepeatAppendsNothing ==
    pre.repeat => memcells = pre.files.memcells

\* C5, amended: in normal mode, a consolidate call with the memory_window
\* of the previous call, on a session whose cursor and messages are as that
\* call left them, appends no MemCell and calls no provider when the
\* previous call was in normal mode and either closed an episode or found
\* fewer than two messages in its span.
C5_RepeatAfterCloseAppendsNothing ==
    (/\ pre.repeat
     /\ ~call.archive_all
     /\ ~prev.archive_all
     /\ prev.keep_count = call.keep_count
     /\ prev.outcome \in {"closed", "short", "empty"}) =>
        /\ memcells = pre.files.memcells
        /\ provider_calls = 0
        /\ outcome = "empty"
        /\ result = TRUE
        /\ last_consolidated = pre.cursor

\* The call before closed an episode in normal mode; the session has not
\* grown and consolidate was called again with the same window.
C5_Witness ==
    /\ pc = "done"
    /\ pre.repeat
    /\ ~call.archive_all
    /\ ~prev.archive_all
    /\ prev.keep_count = call.keep_count
    /\ prev.outcome = "closed"
    /\ pre.files.memcells # <<>>
    /\ memcells = pre.files.memcells

\* C6: in archive mode the MemCell holds the messages after the cursor only.
C6_ArchiveSpanIsUnconsolidated ==
    (call.archive_all /\ "memcell" \in Steps) =>
        \A k \in DOMAIN call.memcell.original_data :
            call.memcell.original_data[k] > pre.cursor


\* the bullet lines of a digest
FactLinesOf(text) == FactLines(splitlines(text))

\* the fact line of the episode the running call closed
CallFact == NewFact(call.memcell.timestamp, call.topic_summary)

\* a digest with one more fact line
WithFact(text, fact) ==
    IF text = <<>> THEN fact \o <<NL>>
    ELSE rstrip(text) \o <<NL>> \o fact \o <<NL>>

C8_CeilingForcesClose ==
    LET reached == /\ ~call.archive_all
                   /\ SpanLen + Len(call.pending) >= HARD_MESSAGE_LIMIT
    IN  /\ pc = "boundary" => ~reached
        /\ (pc = "done" /\ reached /\ call.raised = "none") =>
              /\ outcome = "closed"
              /\ result = TRUE
              /\ call.attempt = 0
              /\ call.topic_summary = LimitSummary
              /\ memcells = Append(pre.files.memcells, call.memcell)
              /\ last_consolidated = Len(messages) - call.keep_count
              /\ last_consolidated > pre.cursor

\* The span and the pending message number exactly HARD_MESSAGE_LIMIT,
\* no extractor got a well-formed reply, and the episode was closed.
C8_Witness ==
    /\ pc = "done"
    /\ ~call.archive_all
    /\ SpanLen + Len(call.pending) = HARD_MESSAGE_LIMIT
    /\ failing = Extractors
    /\ \A e \in Extractors : e \in DOMAIN replies /\ replies[e] = "failed"
    /\ outcome = "closed"
    /\ memcells = Append(pre.files.memcells, call.memcell)
    /\ last_consolidated > pre.cursor

\* C9: whatever extractors get a reply they fail on, the others persist
\* their artifacts, the history entry is appended, the digest folded, the
\* cursor advanced and true returned, and an extractor that failed has
\* persisted nothing.
C9_ExtractorIsolation ==
    (pc = "done" /\ call.raised = "none" /\ "memcell" \in Steps) =>
        LET id == call.memcell.event_id
            ok(e) == e \in DOMAIN replies /\ replies[e] = "ok"
        IN  /\ result = TRUE
            /\ outcome = "closed"
            /\ oplog = StepOrder
            /\ last_consolidated = IF call.archive_all THEN 0
                                   ELSE Len(messages) - call.keep_count
            /\ episodes = IF ok("episode") THEN Append(pre.files.episodes, id)
                          ELSE pre.files.episodes
            /\ foresights = IF ok("foresight") THEN Append(pre.files.foresights, id)
                            ELSE pre.files.foresights
            /\ Len(history) = Len(pre.files.history) + 1
                              + (IF ok("eventlog") THEN 1 ELSE 0)
            /\ IF ok("profile")
               THEN user_md = apply_profile_op(pre.files.user_md, ProfileLine)
               ELSE user_md = pre.files.user_md

\* C10: when the callers serialize their cluster assignments, the event id
\* of every assignment that has returned is in the persisted mapping.
C10_SerializedKeepsAssignments ==
    serialized => assigned \subseteq EventIdsIn(cluster_state)

\* Without serialization: both callers have returned from one assignment
\* each, of two event ids, and the persisted mapping holds only one of them.
C10_Witness ==
    /\ ~serialized
    /\ \A p \in Assigners : assigner[p].pc = "idle" /\ assigner[p].done = 1
    /\ Cardinality(assigned) = 2
    /\ Cardinality(EventIdsIn(cluster_state)) = 1
    /\ EventIdsIn(cluster_state) \subseteq assigned


\* the state in cluster_state.json as load_cluster_state reads it
PersistedState == load_cluster_state(cluster_state)

\* C11: after any sequence of sequential assign calls that starts from the
\* empty state, the count of every cluster key equals the number of event
\* ids whose event->cluster mapping resolves to that cluster.
C11_CountsEqualEvents ==
    serialized =>
        \A c \in DOMAIN PersistedState.cluster_counts :
            PersistedState.cluster_counts[c]
                = Cardinality(get_cluster_event_ids(cluster_state, c))


\* C12: a sequential assignment of an event id, already assigned or not,
\* leaves one entry for it in event->cluster, which holds the cluster of
\* this assignment (the later assignment overwrites the earlier one), and
\* leaves the entry of every other event id as it was.
C12_ReassignOverwrites ==
    [][\A p \in Assigners :
          (serialized /\ assigner[p].pc = "loaded" /\ assigner'[p].pc = "idle")
          => LET before == PersistedState.eventid_to_cluster
                 after == load_cluster_state(cluster_state').eventid_to_cluster
                 e == assigner[p].event_id
             IN  /\ DOMAIN after = DOMAIN before \cup {e}
                 /\ after[e] = cluster_id_from_timestamp(assigner[p].timestamp)
                 /\ \A x \in DOMAIN before \ {e} : after[x] = before[x]]_vars

\* An event id was assigned twice, to two clusters, next to another event
\* id; the mapping holds the later cluster.
C12_Witness ==
    /\ serialized
    /\ \E i \in DOMAIN assign_log :
          LET last == assign_log[Len(assign_log)]
          IN  /\ i < Len(assign_log)
              /\ assign_log[i].event_id = last.event_id
              /\ assign_log[i].cluster_id # last.cluster_id
              /\ PersistedState.eventid_to_cluster[last.event_id]
                     = last.cluster_id
              /\ DOMAIN PersistedState.eventid_to_cluster # {last.event_id}


\* the assignment assign_log[i] was followed by assignments of other event
\* ids only
NotReassigned(i) ==
    \A j \in DOMAIN assign_log :
        j > i => assign_log[j].event_id # assign_log[i].event_id

\* C13: after a sequential assignment of an event id returned cluster id c,
\* get_cluster_event_ids for c includes the event id, and keeps including
\* it after any further sequential assignments of other event ids.
C13_MemberRoundTrip ==
    serialized =>
        \A i \in DOMAIN assign_log :
            NotReassigned(i) =>
                assign_log[i].event_id
                    \in get_cluster_event_ids(cluster_state,
                                              assign_log[i].cluster_id)

\* An event id was assigned and then another one, to another cluster; the
\* listing of the first cluster still holds the first event id.
C13_Witness ==
    /\ serialized
    /\ Len(assign_log) >= 2
    /\ NotReassigned(1)
    /\ assign_log[2].cluster_id # assign_log[1].cluster_id
    /\ assign_log[1].event_id
           \in get_cluster_event_ids(cluster_state, assign_log[1].cluster_id)


\* the keys of a well-formed cluster state
ClusterStateKeys == {"eventid_to_cluster", "cluster_counts", "cluster_last_ts"}

\* C15: when cluster_state.json is unparseable, load_cluster_state yields
\* the empty default state of three empty mappings, and the assignment that
\* loaded it returns and rewrites the file as a well-formed JSON state that
\* contains the newly assigned event.
C15_CorruptStateRecovered ==
    [][\A p \in Assigners :
          /\ (assigner[p].pc = "idle" /\ assigner'[p].pc = "loaded"
                 /\ cluster_state.kind = "corrupt")
             => /\ assigner'[p].state = EmptyClusterState
                /\ \A k \in ClusterStateKeys : assigner'[p].state[k] = <<>>
          /\ (assigner[p].pc = "loaded" /\ assigner'[p].pc = "idle"
                 /\ assigner[p].loaded = "corrupt")
             => /\ cluster_state'.kind = "json"
                /\ DOMAIN cluster_state'.state = ClusterStateKeys
                /\ assigner[p].event_id \in EventIdsIn(cluster_state')
                /\ assigner[p].event_id
                       \in get_cluster_event_ids(
                               cluster_state',
                               cluster_id_from_timestamp(assigner[p].timestamp))
                /\ assign_log' # assign_log]_vars

\* The first assignment found cluster_state.json unparseable and returned;
\* the file is JSON again and holds the event id.
C15_Witness ==
    /\ assign_log # <<>>
    /\ assign_log[1].loaded = "corrupt"
    /\ cluster_state.kind = "json"
    /\ assign_log[1].event_id \in EventIdsIn(cluster_state)


\* C14: the MemCell store is append-only.  In every step of every
\* consolidate call, whether the call succeeds, fails or retries a span
\* after a failure, the content of memcells.jsonl before the step is an
\* initial part of its content after the step: a MemCell once written is
\* neither changed nor removed.
C14_MemCellsAppendOnly ==
    [][IsPrefix(memcells, memcells')]_vars

\* A call failed after it had appended its MemCell; the retry appended a
\* second MemCell after the first, which is still there.
C14_Witness ==
    /\ pc = "done"
    /\ prev.called
    /\ prev.outcome = "failed"
    /\ pre.files.memcells # <<>>
    /\ "memcell" \in Steps
    /\ memcells = Append(pre.files.memcells, call.memcell)


\* the date an entry "[date..." carries, if it is a calendar date
EntryDate(text) == SubSeq(text, 2, 3)
CarriesDate(text) ==
    startswith(text, <<"[">>) /\ Len(text) >= 3 /\ IsIsoDate(EntryDate(text))

\* C16: an entry that starts with "[" and a calendar date is appended, with
\* a blank line after it, to the HISTORY file of exactly that date, and
\* today's file is used only for an entry that carries no parseable date;
\* entries of different dates are never in the same file.
C16_HistoryFileIsEntryDate ==
    \A i \in DOMAIN history :
        /\ CarriesDate(history[i].text)
           => history[i].file = EntryDate(history[i].text)
        /\ \A j \in DOMAIN history :
              (CarriesDate(history[i].text) /\ CarriesDate(history[j].text)
                  /\ EntryDate(history[i].text) # EntryDate(history[j].text))
              => history[i].file # history[j].file


\* the detector was called at a ceiling: the two slices have together 50
\* messages or more, or 8192 estimated tokens or more, and the history has
\* two messages or more
AtCeiling ==
    /\ \/ Len(detector.history_msgs) + Len(detector.new_msgs)
              >= HARD_MESSAGE_LIMIT
       \/ estimate_total_tokens(detector.history_msgs \o detector.new_msgs)
              >= HARD_TOKEN_LIMIT
    /\ Len(detector.history_msgs) >= 2

\* C17: for every history and every new slice, called at a ceiling the
\* detector returns end, not wait, with the fixed limit summary and has made
\* no provider call.
C17_CeilingForcesEnd ==
    (detector.pc # "idle" /\ AtCeiling) =>
        /\ detector.pc = "returned"
        /\ detector.decision = Decision(TRUE, FALSE, LimitSummary)
        /\ detector.provider_calls = 0


\* C18: the detector makes at most three provider calls and stops at the
\* first attempt that yields a parseable JSON object: while it is asking,
\* every call made so far has failed, and it returns from a parsed reply
\* right at the first one.  If all three attempts raise or return
\* unparseable output it returns not end, wait, with an empty summary.
C18_RetryBudget ==
    /\ detector.provider_calls <= 3
    /\ detector.pc = "asking" =>
          /\ detector.failed = detector.provider_calls
          /\ detector.provider_calls < 3
    /\ (detector.pc = "returned" /\ detector.provider_calls > 0) =>
          \/ /\ boundary_attempt_ok(detector.reply)
             /\ detector.failed = detector.provider_calls - 1
          \/ /\ ~boundary_attempt_ok(detector.reply)
             /\ detector.failed = 3
             /\ detector.provider_calls = 3
             /\ detector.decision = Decision(FALSE, TRUE, <<>>)

\* Three attempts failed, the last one by raising, and the detector
\* returned not end, wait.
C18_Witness ==
    /\ detector.pc = "returned"
    /\ detector.provider_calls = 3
    /\ detector.failed = 3
    /\ detector.reply.raises
    /\ detector.decision = Decision(FALSE, TRUE, <<>>)

\* C19: in every decision the detector returns, for every history, new
\* slice and provider reply, end and wait are not both true; and for an
\* empty history with an empty new slice the decision is not end, wait.
C19_EndExcludesWait ==
    detector.pc = "returned" =>
        /\ ~(detector.decision.end /\ detector.decision.wait)
        /\ (detector.history_msgs = <<>> /\ detector.new_msgs = <<>>)
           => (~detector.decision.end /\ detector.decision.wait)

\* The provider replied should_end and should_wait both true; the decision
\* returned is end, not wait.
C19_Witness ==
    /\ detector.pc = "returned"
    /\ boundary_attempt_ok(detector.reply)
    /\ detector.reply.should_end = "true"
    /\ detector.reply.should_wait = "true"
    /\ detector.decision.end
    /\ ~detector.decision.wait

\* C20: in every decision the detector returns, the summary is empty
\* whenever end is false, whatever topic_summary the reply carries.
C20_SummaryOnlyWithEnd ==
    (detector.pc = "returned" /\ ~detector.decision.end) =>
        detector.decision.summary = <<>>


\* a field of the reply that is absent or no boolean
Malformed == {"absent", "truthy", "falsy"}

\* C21: when the JSON object of the reply has should_end absent or not a
\* boolean, the decision is not end; when should_wait is absent or not a
\* boolean and the decision is not end, the decision is wait.
C21_FieldDefaults ==
    (detector.pc = "returned" /\ boundary_attempt_ok(detector.reply)) =>
        /\ detector.reply.should_end \in Malformed => ~detector.decision.end
        /\ (detector.reply.should_wait \in Malformed /\ ~detector.decision.end)
           => detector.decision.wait


IsSuffix(s, t) ==
    Len(s) <= Len(t) /\ SubSeq(t, Len(t) - Len(s) + 1, Len(t)) = s

\* the lines of a digest text as _compact_memory_text reads them
DigestLines(text) == splitlines(strip(text))

\* C22: for every digest text longer than the cap, the fact lines of the
\* compacted text are a final part of the fact lines of the input, the
\* newest fact line of the input is among them, and every header line of
\* the input is a header line of the result.
C22_CompactionKeepsNewest ==
    (compactor.pc = "returned" /\ compactor.op = "compact"
        /\ Len(compactor.content) > compactor.max_chars) =>
        LET facts == FactLines(DigestLines(compactor.content))
            kept == FactLines(DigestLines(compactor.result))
        IN  /\ IsSuffix(kept, facts)
            /\ facts # <<>> => (kept # <<>> /\ kept[Len(kept)] = facts[Len(facts)])
            /\ IsPrefix(HeaderLines(DigestLines(compactor.content)),
                        HeaderLines(DigestLines(compactor.result)))

\* C23: for every input text _compact_memory_text returns a text no longer
\* than the cap, and so every text the digest fold of consolidate writes to
\* MEMORY.md is no longer than the cap.
C23_DigestWithinCap ==
    /\ (compactor.pc = "returned" /\ compactor.op = "compact")
       => Len(compactor.result) <= compactor.max_chars
    /\ (compactor.pc = "returned" /\ compactor.op = "fold"
           /\ compactor.result # compactor.content)
       => Len(compactor.result) <= compactor.max_chars

\* A text of three bullet lines and a header, longer than the cap, was
\* folded with a new fact; what was written went through the compaction and
\* is within the cap.
C23_Witness ==
    /\ compactor.pc = "returned"
    /\ compactor.op = "fold"
    /\ Len(compactor.content) > compactor.max_chars
    /\ Len(FactLines(DigestLines(compactor.content))) = 3
    /\ compactor.result # compactor.content
    /\ Len(compactor.result) = compactor.max_chars


\* the calls that returned together with the one that runs or has returned
\* its result
RunNow ==
    IF pc = "idle" THEN run
    ELSE RunWith(run, call, IF pc = "done" THEN outcome ELSE "running")

\* all calls were in normal mode with one memory_window
NormalRun == RunNow.normal /\ Cardinality(RunNow.keep_counts) <= 1

\* the session messages a MemCell holds, by their indices
IndicesOf(memcell) ==
    {memcell.original_data[k] : k \in DOMAIN memcell.original_data}

\* C24: over any sequence of normal-mode calls with one memory_window that
\* all return true, on a session that only grows and whose cursor starts at
\* 0, the messages of successive MemCells are disjoint and increasing: every
\* message of an earlier MemCell is before every message of a later one.
C24_CellsDisjointIncreasing ==
    (NormalRun /\ RunNow.succeeded) =>
        \A i \in DOMAIN memcells, j \in DOMAIN memcells :
            i < j => \A a \in IndicesOf(memcells[i]), b \in IndicesOf(memcells[j]) :
                         a < b

\* Two normal-mode calls with the same window returned true and each wrote
\* a MemCell that holds messages.
C24_Witness ==
    /\ pc = "done"
    /\ NormalRun
    /\ RunNow.succeeded
    /\ Len(memcells) = 2
    /\ IndicesOf(memcells[1]) # {}
    /\ IndicesOf(memcells[2]) # {}


\* the message at index i is held by some MemCell
Stored(i) == \E k \in DOMAIN memcells : i \in IndicesOf(memcells[k])

\* C25 as stated: over any sequence of normal-mode calls with one
\* memory_window, every session message with content at an index below the
\* cursor is held by some MemCell.
C25_CursorPassesStoredOnly ==
    NormalRun =>
        \A i \in 1..last_consolidated :
            messages[i].content > 0 => Stored(i)

\* C25: over any sequence of normal-mode calls with one memory_window, on a
\* session that only grows and whose cursor starts at 0, every session
\* message with content at an index below the cursor is held by some
\* MemCell or was the one message of the span of a call, past which the
\* call moved the cursor without an artifact.
C25_CursorPassesStoredOrSkipped ==
    NormalRun =>
        \A i \in 1..last_consolidated :
            messages[i].content > 0 => (Stored(i) \/ i \in RunNow.skipped)

\* A call found one message in its span and moved the cursor past it; the
\* next call closed an episode over the messages after it.
C25_Witness ==
    /\ pc = "done"
    /\ NormalRun
    /\ outcome = "closed"
    /\ RunNow.skipped = {1}
    /\ messages[1].content > 0
    /\ ~Stored(1)
    /\ last_consolidated > 1
    /\ \A i \in 2..last_consolidated : Stored(i)


\* C26: in every step of a normal-mode call, on a session that only grows,
\* the cursor does not decrease; when the step changes it, the new value is
\* len(messages) - memory_window // 2 for the window of the call; the
\* cursor is never above the number of session messages; and a step that
\* lowers the cursor belongs to an archive call and sets it to 0.
C26_CursorMonotone ==
    [][/\ ~call'.archive_all =>
             /\ last_consolidated' >= last_consolidated
             /\ last_consolidated' # last_consolidated =>
                    last_consolidated' = Len(messages') - call'.keep_count
       /\ last_consolidated' <= Len(messages')
       /\ last_consolidated' < last_consolidated =>
              (call'.archive_all /\ last_consolidated' = 0)
       /\ IsPrefix(messages, messages')]_vars

\* A normal-mode call found the cursor above 0, where an earlier
\* normal-mode call had left it, and moved it forward.
C26_Witness ==
    /\ pc = "done"
    /\ NormalRun
    /\ ~call.archive_all
    /\ pre.cursor > 0
    /\ last_consolidated > pre.cursor
    /\ last_consolidated = Len(messages) - call.keep_count

=============================================================================
